---- MODULE Spec2Model ----
(***************************************************************************)
(* Binary referral tree of the user service: the users collection, the     *)
(* user.register handler (UsersService.register) with its slot search      *)
(* (findOptimalPosition / findDeepestAvailablePosition) and the referral   *)
(* code generator.  Every await of the handler is one step of a            *)
(* registration, so that concurrent registrations interleave exactly at    *)
(* their storage reads and writes.  The one exception is the retry loop of *)
(* the code generator: an iteration that finds its code taken only reads,  *)
(* and a stored code is never removed, so it would find the code taken at  *)
(* any later time as well; the loop is one step, taken at its last read.   *)
(*                                                                         *)
(* The tree queries of TreeService (getUserTree, getUserAncestors,          *)
(* getParentChain, getDirectReferrals, getDescendantsInLeg,                *)
(* checkMinDepthLevels, searchUsersInTree, checkActiveMembershipsInLeg)    *)
(* read the store and answer in one step; the answer of the last step is   *)
(* kept in out.  In the specification SpecFault a call of the store may    *)
(* throw: a read of a registration, the write of the parent's slot, a read *)
(* of getUserTree or of the search.                                        *)
(*                                                                         *)
(* Not modelled: the e-mail, document and role lookups of register (they   *)
(* are assumed to pass), password hashing and the welcome e-mail.  The     *)
(* texts a search looks at are fixed per user (ProfileOf).                 *)
(***************************************************************************)
EXTENDS Integers, FiniteSets, Sequences, TLC

\* ---------------------------------------------------------------- bounds
\* registration handlers that may be in flight at once (specification Spec)
MaxRegs == 2
\* users the store may hold when registrations run concurrently
MaxNodes == 3
\* users the store may hold when registrations run one after the other
\* (specification SpecSeq)
MaxSeqNodes == 5
\* users the store may hold when accounts are deactivated between
\* registrations (specification SpecActive)
MaxActNodes == 3
\* number of codes (in either letter case) a request payload may name
MaxCodes == 5
\* users the store may hold when every registration names the root's code
\* and LEFT (specification SpecChain)
MaxChainNodes == 23
\* users the store may hold when tree queries are served between
\* registrations (specifications SpecTree and SpecTreeActive)
MaxTreeNodes == 4
\* users the store may hold when referrals are listed between concurrent
\* registrations (specification SpecRace)
MaxRaceNodes == 4
\* account-management toggles of isActive
MaxToggles == 1
\* users in the store while the tree is searched
MaxSearchNodes == 3
\* users in the store while legs are checked for active memberships
MaxLegNodes == 3
\* users in the store while reads and writes of the store may fail
MaxFaultNodes == 3

\* ------------------------------------------------------------- constants
\* generateUniqueReferralCode: const maxAttempts = 10
maxAttempts == 10

\* a null / undefined reference
NULL == -1
\* the node created out-of-band before any registration
RootId == 0

Procs == 1..MaxRegs

\* enum Position
LEFT == "LEFT"
RIGHT == "RIGHT"
\* an absent (undefined) position
UNDEF == "undefined"
\* a position string that is neither LEFT nor RIGHT
MIDDLE == "MIDDLE"

\* A referral code is a pair <<case, k>>: the k-th code of the pool written
\* in upper case ("U") or in lower case ("L").
UpperCodes == {<<"U", k>> : k \in 1..MaxCodes}
LowerCodes == {<<"L", k>> : k \in 1..MaxCodes}
\* the codes generateRandomCode may return: more than any store of the
\* model has users, so that the generator never runs out of unused codes
PoolCodes == {<<"U", k>> : k \in 1..(MaxCodes + MaxChainNodes)}
\* registerDto.referrerCode absent
NoCode == <<"undefined", 0>>
\* registerDto.referrerCode = "" (also what the DTO's trim makes of blanks)
EmptyCode == <<"empty", 0>>

\* String.prototype.toUpperCase on a code
toUpperCase(c) == IF c[1] = "L" THEN <<"U", c[2]>> ELSE c

\* JavaScript truthiness of registerDto.referrerCode
Truthy(c) == c # NoCode /\ c # EmptyCode

\* the referral code of the out-of-band root
RootCode == <<"U", 1>>

VARIABLES users, reg, toggles, out

vars == <<users, reg, toggles, out>>

\* ------------------------------------------------------------ user store
\* a stored user document (schema User), tree fields only
NewUserDoc(code, refCode, par, pos) ==
  [referralCode |-> code, referrerCode |-> refCode, parent |-> par,
   leftChild |-> NULL, rightChild |-> NULL, position |-> pos,
   isActive |-> TRUE]

\* the child slot of a document named by a position
ChildAt(doc, pos) == IF pos = LEFT THEN doc.leftChild ELSE doc.rightChild

\* userModel.findOne({ referralCode }): ids of the matches
findByReferralCode(st, code) ==
  {n \in DOMAIN st : st[n].referralCode = code}

\* the referrer lookup without its isActive filter
findActiveReferrer_AnyActivity(st, code) ==
  {n \in DOMAIN st : st[n].referralCode = toUpperCase(code)}

\* a lookup that leaves the code out of the filter
findActiveReferrer_AnyCode(st, code) ==
  {n \in DOMAIN st : st[n].isActive}

\* userModel.findOne({ referralCode: code.toUpperCase(), isActive: true })
findActiveReferrer(st, code) ==
  {n \in DOMAIN st : st[n].referralCode = toUpperCase(code) /\ st[n].isActive}

\* userModel.findById(id): the id itself when stored, NULL otherwise
findById(st, id) == IF id \in DOMAIN st THEN id ELSE NULL

\* a payload validation that lets every position string through
ValidPosition_Unchecked(pos) == TRUE

\* ValidationPipe on RegisterDto.position: @IsEnum(['LEFT','RIGHT']) @IsOptional
ValidPosition(pos) == pos \in {LEFT, RIGHT, UNDEF}

\* a target position that is LEFT whatever the form asked for
TargetPosition_AlwaysLeft(pos) == LEFT

\* targetPosition of findOptimalPosition
TargetPosition(pos) == IF pos = RIGHT THEN RIGHT ELSE LEFT

Opposite(pos) == IF pos = LEFT THEN RIGHT ELSE LEFT

\* _id of the document built by `new this.userModel(...)`: ObjectIds are
\* unique per document; the ids are handed out in insertion order
NewId(st) == Cardinality(DOMAIN st)

\* a parent update that sets both child slots
SetChild_BothSlots(st, par, pos, id) ==
  [st EXCEPT ![par].leftChild = id, ![par].rightChild = id]

\* parentUser.leftChild / rightChild = savedUser._id; parentUser.save():
\* an unconditional $set of the one modified path
SetChild(st, par, pos, id) ==
  IF pos = LEFT
    THEN [st EXCEPT ![par].leftChild = id]
    ELSE [st EXCEPT ![par].rightChild = id]

\* a collection without the unique index on referralCode
UniqueIndexAllows_NoIndex(st, code) == TRUE

\* unique index on referralCode: may the document be inserted?
UniqueIndexAllows(st, code) == findByReferralCode(st, code) = {}

\* ------------------------------------------------- registration processes
IdleReg ==
  [pc |-> "idle", referrerCode |-> NoCode, position |-> UNDEF,
   referralCode |-> NoCode,
   referrer |-> NULL, refLeft |-> NULL, refRight |-> NULL,
   phase |-> 0, next |-> NULL,
   parentUser |-> NULL, assignedPosition |-> LEFT, savedUser |-> NULL,
   status |-> "none"]

\* the handler has thrown an RpcException with the given status: its locals
\* are gone, only the outcome is kept (with the rejected position or the
\* referrer code that was looked up and not found)
Done(st) == [IdleReg EXCEPT !.pc = "done", !.status = st]

\* the handler has returned the saved user
Returned(id) == [IdleReg EXCEPT !.pc = "done", !.status = "ok",
                                !.savedUser = id]

\* out is the answer of the tree query served in the last step, or that of
\* a registration a failure of the store has ended in the last step; any
\* other step leaves NoResponse
NoResponse == [op |-> "none", req |-> <<>>, status |-> "none", body |-> {}]

Init ==
  /\ users = (RootId :> NewUserDoc(RootCode, NoCode, NULL, UNDEF))
  /\ reg = [p \in Procs |-> IdleReg]
  /\ toggles = 0
  /\ out = NoResponse

\* the request payloads a client may send: any referrer code (absent, empty,
\* either case) and any position string
DtoCodes == {NoCode, EmptyCode} \cup UpperCodes \cup LowerCodes
DtoPositions == {LEFT, RIGHT, UNDEF, MIDDLE}

\* the payloads of the registration form: an explicit side and either no
\* referrer code or the code of a user as it was handed out (upper case)
FormCodes == {NoCode} \cup {users[n].referralCode : n \in DOMAIN users}
FormPositions == {LEFT, RIGHT}

\* registrations between their first and their last step
InFlight == {q \in Procs : reg[q].pc \notin {"idle", "done"}}

\* user.register arrives and is served by the first free handler (the
\* handlers are interchangeable; one that has answered is free for the next
\* request): the global ValidationPipe rejects a bad payload with status 400
\* before the handler runs; otherwise register starts (e-mail, document and
\* role lookups pass) and enters generateUniqueReferralCode.  The payload's
\* referrerCode is first read after that loop and is drawn there.
Register(p, maxUsers, positions) ==
  /\ reg[p].pc \in {"idle", "done"}
  /\ \A q \in Procs : q < p => q \in InFlight
  /\ Cardinality(DOMAIN users) + Cardinality(InFlight) < maxUsers
  /\ \E pos \in positions :
       reg' = [reg EXCEPT ![p] =
                 IF ~ValidPosition(pos)
                   THEN [Done("400") EXCEPT !.position = pos]
                   ELSE [IdleReg EXCEPT !.pc = "generateCode",
                                        !.position = pos]]
  /\ UNCHANGED <<users, toggles>>
  /\ out' = NoResponse

\* codes stored or held by a registration in flight
CodesInUse ==
  ({users[n].referralCode : n \in DOMAIN users}
     \cup {reg[q].referralCode : q \in InFlight}) \ {NoCode}

\* generateRandomCode: uuidv4().substring(0, 8).toUpperCase().  Codes are
\* opaque names, so of the codes nobody has drawn yet only the least is
\* drawn; every code somebody has drawn may be drawn again.
generateRandomCode ==
  LET unused == PoolCodes \ CodesInUse IN
  CodesInUse \cup {c \in unused : \A d \in unused : c[2] <= d[2]}

\* the codes generateRandomCode returns during one call of
\* generateUniqueReferralCode: first k codes that are stored (the root's
\* stands for any of them), then the code c
Draws(k, c) == [i \in 1..(k + 1) |-> IF i <= k THEN RootCode ELSE c]

\* generateUniqueReferralCode on the given draws: do { draw; attempts++;
\* if (attempts > maxAttempts) throw 500 } while (findOne({ referralCode })).
\* The result is the code found free, or NoCode for the throw.
RECURSIVE generateUniqueReferralCode(_, _, _)
generateUniqueReferralCode(st, draws, attempts) ==
  LET referralCode == Head(draws) IN
  IF attempts + 1 > maxAttempts
    THEN NoCode
    ELSE IF findByReferralCode(st, referralCode) # {}
           THEN generateUniqueReferralCode(st, Tail(draws), attempts + 1)
           ELSE referralCode

\* register calls generateUniqueReferralCode: after up to maxAttempts draws
\* of stored codes the call throws (status 500) or comes back with a code
\* that is not stored, and register goes on to findOptimalPosition (truthy
\* referrerCode) or straight to the insert
GenerateCode(p, refCodes) ==
  /\ reg[p].pc = "generateCode"
  /\ \E k \in 0..maxAttempts :
       \E c \in {d \in generateRandomCode : findByReferralCode(users, d) = {}} :
         LET code == generateUniqueReferralCode(users, Draws(k, c), 0) IN
         IF code = NoCode
           THEN reg' = [reg EXCEPT ![p] = Done("500")]
           ELSE \E refCode \in refCodes :
                  reg' = [reg EXCEPT ![p] =
                            [@ EXCEPT !.referralCode = code,
                                      !.referrerCode = refCode,
                                      !.pc = IF Truthy(refCode)
                                               THEN "findReferrer"
                                               ELSE "saveUser"]]
  /\ UNCHANGED <<users, toggles>>
  /\ out' = NoResponse

\* the result of findOptimalPosition: register keeps parent and position
Found(r, par, pos) ==
  [r EXCEPT !.pc = "saveUser", !.parentUser = par, !.assignedPosition = pos,
            !.phase = 0, !.next = NULL, !.refLeft = NULL, !.refRight = NULL]

\* the position a search of findOptimalPosition looks for: targetPosition
\* in phase 1, alternativePosition in phase 2
SearchedPosition(r) ==
  IF r.phase = 1 THEN TargetPosition(r.position)
                 ELSE Opposite(TargetPosition(r.position))

\* findOptimalPosition once a search came back with a node whose slot is
\* taken: phase 1 starts the alternative search at the referrer document
\* read earlier, phase 2 falls back to the referrer's own slots
SearchFailed(r) ==
  IF r.phase = 1
    THEN LET alt == Opposite(TargetPosition(r.position)) IN
         LET slot == IF alt = LEFT THEN r.refLeft ELSE r.refRight IN
         IF slot = NULL
           THEN Found(r, r.referrer, alt)
           ELSE [r EXCEPT !.phase = 2, !.next = slot]
    ELSE IF r.refLeft = NULL
           THEN Found(r, r.referrer, LEFT)
           ELSE Found(r, r.referrer, RIGHT)

\* findOptimalPosition up to its first findById: look the referrer up (404
\* when there is no active match), fix targetPosition and test the
\* referrer's own slot
FindReferrer(p) ==
  /\ reg[p].pc = "findReferrer"
  /\ LET found == findActiveReferrer(users, reg[p].referrerCode) IN
     IF found = {}
       THEN reg' = [reg EXCEPT ![p] =
                      [Done("404") EXCEPT !.referrerCode =
                                            toUpperCase(reg[p].referrerCode)]]
       ELSE \E ref \in found :
              LET target == TargetPosition(reg[p].position) IN
              LET r == [reg[p] EXCEPT !.referrer = ref,
                                      !.refLeft = users[ref].leftChild,
                                      !.refRight = users[ref].rightChild,
                                      !.phase = 1] IN
              reg' = [reg EXCEPT ![p] =
                        IF ChildAt(users[ref], target) = NULL
                          THEN Found(r, ref, target)
                          ELSE [r EXCEPT !.pc = "descend",
                                         !.next = ChildAt(users[ref], target)]]
  /\ UNCHANGED <<users, toggles>>
  /\ out' = NoResponse

\* one level of findDeepestAvailablePosition: findById of the child in the
\* searched slot; a child that is stored and has the slot free is the
\* answer, a child with the slot taken is descended into, a child that is
\* not stored makes the search return the node above it
Descend(p) ==
  /\ reg[p].pc = "descend"
  /\ LET r == reg[p] IN
     LET child == findById(users, r.next) IN
     LET pos == SearchedPosition(r) IN
     reg' = [reg EXCEPT ![p] =
               IF child = NULL
                 THEN SearchFailed(r)
               ELSE IF ChildAt(users[child], pos) = NULL
                 THEN Found(r, child, pos)
               ELSE [r EXCEPT !.next = ChildAt(users[child], pos)]]
  /\ UNCHANGED <<users, toggles>>
  /\ out' = NoResponse

\* newUser.save(): the insert; a duplicate referralCode violates the unique
\* index (error code 11000) and register answers 409.  Without a parent the
\* handler then returns.
SaveUser(p) ==
  /\ reg[p].pc = "saveUser"
  /\ LET r == reg[p] IN
     LET id == NewId(users) IN
     IF ~UniqueIndexAllows(users, r.referralCode)
       THEN /\ reg' = [reg EXCEPT ![p] = Done("409")]
            /\ UNCHANGED users
       ELSE /\ users' = (id :> NewUserDoc(r.referralCode,
                                          toUpperCase(r.referrerCode),
                                          r.parentUser, r.assignedPosition))
                        @@ users
            /\ reg' = [reg EXCEPT ![p] =
                         IF r.parentUser # NULL
                           THEN [r EXCEPT !.pc = "saveParent",
                                          !.savedUser = id]
                           ELSE Returned(id)]
  /\ UNCHANGED toggles
  /\ out' = NoResponse

\* parentUser.save() with the child slot set to the new user, then the
\* handler returns
SaveParent(p) ==
  /\ reg[p].pc = "saveParent"
  /\ users' = SetChild(users, reg[p].parentUser, reg[p].assignedPosition,
                       reg[p].savedUser)
  /\ reg' = [reg EXCEPT ![p] = Returned(reg[p].savedUser)]
  /\ UNCHANGED toggles
  /\ out' = NoResponse

\* the answer of a registration that ended in the catch block of register
\* after the named call threw an error that is no RpcException and has no
\* code 11000: status 500
Thrown(call) ==
  [op |-> "register", req |-> [failing |-> call], status |-> "500",
   body |-> {}]

\* a read of the store made by register throws (the findOne of
\* generateUniqueReferralCode or of findOptimalPosition, a findById of
\* findDeepestAvailablePosition): nothing was written yet
ReadFails(p) ==
  /\ reg[p].pc \in {"generateCode", "findReferrer", "descend"}
  /\ reg' = [reg EXCEPT ![p] = Done("500")]
  /\ UNCHANGED <<users, toggles>>
  /\ out' = Thrown("read")

\* parentUser.save() throws: the new user was inserted by newUser.save()
\* before, and the catch block only builds the answer
SaveParentFails(p) ==
  /\ reg[p].pc = "saveParent"
  /\ reg' = [reg EXCEPT ![p] = Done("500")]
  /\ UNCHANGED <<users, toggles>>
  /\ out' = Thrown("parentUser.save")

\* account management outside the tree engine flips isActive of a user
ToggleActive(n) ==
  /\ toggles < MaxToggles
  /\ n \in DOMAIN users
  /\ users' = [users EXCEPT ![n].isActive = ~@]
  /\ toggles' = toggles + 1
  /\ UNCHANGED reg
  /\ out' = NoResponse

\* one step of the handler serving registration p, its payload carrying
\* one of the given referrer codes
Step(p, refCodes) ==
  \/ GenerateCode(p, refCodes)
  \/ FindReferrer(p)
  \/ Descend(p)
  \/ SaveUser(p)
  \/ SaveParent(p)

\* registrations sent from the registration form run concurrently
Next ==
  \/ \E p \in Procs : Register(p, MaxNodes, FormPositions)
  \/ \E p \in Procs : Step(p, FormCodes)

Spec == Init /\ [][Next]_vars

\* registrations with arbitrary payloads run one after the other (a request
\* is taken up only when no other is in flight)
NextSeq ==
  \/ InFlight = {} /\ Register(1, MaxSeqNodes, DtoPositions)
  \/ Step(1, DtoCodes)

SpecSeq == Init /\ [][NextSeq]_vars


\* ----------------------------------------------------------- tree queries
\* an id string that is a well-formed ObjectId and names no stored user
GhostId == 99
\* an id string that is no ObjectId
BadId == -2

\* the ids a request may carry: a stored user's, a well-formed one that is
\* not stored, a malformed one, none
RequestIds == DOMAIN users \cup {GhostId, BadId, NULL}

\* the depths a getUserTree request may carry (NULL: none)
RequestDepths == {NULL} \cup 0..6

\* $graphLookup without maxDepth: as deep as the collection goes
NoMaxDepth(st) == Cardinality(DOMAIN st)

\* $graphLookup { startWith: '$_id', connectFromField: '_id',
\* connectToField: 'parent', depthField, maxDepth } continued from the
\* documents `from` at recursion depth `depth`: pairs <<_id, depth>>
RECURSIVE graphLookupChildren(_, _, _, _)
graphLookupChildren(st, from, depth, maxDepth) ==
  LET found == {n \in DOMAIN st : st[n].parent \in from} IN
  IF depth > maxDepth \/ found = {}
    THEN {}
    ELSE {<<n, depth>> : n \in found}
           \cup graphLookupChildren(st, found, depth + 1, maxDepth)

\* $graphLookup { startWith: '$parent', connectFromField: 'parent',
\* connectToField: '_id' } continued from the document with _id = id
RECURSIVE graphLookupParents(_, _)
graphLookupParents(st, id) ==
  IF id \notin DOMAIN st
    THEN {}
    ELSE {id} \cup graphLookupParents(st, st[id].parent)

\* an id check that lets every string through
isValid_Lenient(id) == TRUE

\* Types.ObjectId.isValid (an absent id is not valid)
isValid(id) == id \in Nat

\* a descendant test that counts a user as its own descendant
isUserDescendant_Reflexive(st, ancestorId, descendantId) ==
  /\ ancestorId \in DOMAIN st
  /\ descendantId \in
       {ancestorId} \cup
       {d[1] : d \in graphLookupChildren(st, {ancestorId}, 0, NoMaxDepth(st))}

\* isUserDescendant: $match the ancestor, $graphLookup its descendants over
\* parent, $in of the descendant id; no match of the ancestor gives false
isUserDescendant(st, ancestorId, descendantId) ==
  /\ ancestorId \in DOMAIN st
  /\ descendantId \in
       {d[1] : d \in graphLookupChildren(st, {ancestorId}, 0, NoMaxDepth(st))}

\* an access check that lets everybody through
verifyTreeAccess_Open(st, currentUserId, targetUserId, readFails) == TRUE

\* verifyTreeAccess: the target must be a descendant of the logged-in user;
\* an aggregate that throws is caught and false returned
verifyTreeAccess(st, currentUserId, targetUserId, readFails) ==
  IF readFails
    THEN FALSE
    ELSE isUserDescendant(st, currentUserId, targetUserId)

\* a lookup that stops one level early
getAllDescendants_Shallow(st, rootUserId, maxDepth) ==
  {u \in {<<rootUserId, 0>>}
           \cup graphLookupChildren(st, {rootUserId}, 0, maxDepth - 2) :
     u[1] \in DOMAIN st /\ u[2] <= maxDepth - 1}

\* getAllDescendants with maxDepth: the root at depth 0 and the result of
\* the $graphLookup with maxDepth - 1, filtered by depth <= maxDepth - 1
getAllDescendants(st, rootUserId, maxDepth) ==
  {u \in {<<rootUserId, 0>>}
           \cup graphLookupChildren(st, {rootUserId}, 0, maxDepth - 1) :
     u[1] \in DOMAIN st /\ u[2] <= maxDepth - 1}

\* buildNodeRecursive: the nodes of the TreeNode built for userId, each with
\* its depth and the children it carries (NULL: none)
RECURSIVE buildNodeRecursive(_, _, _, _, _)
buildNodeRecursive(st, userId, userMap, currentDepth, maxDepth) ==
  LET user == st[userId] IN
  LET left == IF /\ currentDepth < maxDepth
                 /\ user.leftChild # NULL
                 /\ user.leftChild \in userMap
                THEN user.leftChild ELSE NULL IN
  LET right == IF /\ currentDepth < maxDepth
                  /\ user.rightChild # NULL
                  /\ user.rightChild \in userMap
                 THEN user.rightChild ELSE NULL IN
  {[id |-> userId, depth |-> currentDepth, position |-> user.position,
    isActive |-> user.isActive, left |-> left, right |-> right]}
    \cup (IF left = NULL THEN {}
          ELSE buildNodeRecursive(st, left, userMap, currentDepth + 1,
                                  maxDepth))
    \cup (IF right = NULL THEN {}
          ELSE buildNodeRecursive(st, right, userMap, currentDepth + 1,
                                  maxDepth))

\* buildTreeOptimized: one aggregate, then the tree is built from its map
buildTreeOptimized(st, rootUserId, maxDepth) ==
  LET userMap == {u[1] : u \in getAllDescendants(st, rootUserId, maxDepth)} IN
  buildNodeRecursive(st, rootUserId, userMap, 0, maxDepth)

\* an RpcException thrown by a query
Failure(status) == [status |-> status, body |-> {}]

\* the reads of getUserTree, each of which may throw
TreeReads == {"findById", "isUserDescendant", "getAllDescendants"}

\* getUserTree: the answer to params = [userId, depth, currentUserId] when
\* the read named by `failing` throws once it is made ("none": no read
\* throws); an error that is no RpcException is answered 500
getUserTree(st, params, failing) ==
  LET depth == IF params.depth = NULL THEN 3 ELSE params.depth IN
  LET currentUserId == params.currentUserId IN
  LET targetUserId == IF params.userId # NULL THEN params.userId
                                              ELSE currentUserId IN
  IF ~isValid(targetUserId) THEN Failure("400")
  ELSE IF ~isValid(currentUserId) THEN Failure("400")
  ELSE IF depth < 1 \/ depth > 5 THEN Failure("400")
  ELSE IF failing = "findById" THEN Failure("500")
  ELSE IF findById(st, targetUserId) = NULL THEN Failure("404")
  ELSE IF /\ targetUserId # currentUserId
          /\ ~verifyTreeAccess(st, currentUserId, targetUserId,
                               failing = "isUserDescendant")
    THEN Failure("403")
  ELSE IF failing = "getAllDescendants" THEN Failure("500")
  ELSE [status |-> "ok",
        body |-> buildTreeOptimized(st, targetUserId, depth)]

\* user.tree.getUserTree is served while one of the given reads may throw.
\* The three reads of the handler are one step: a stored user stays stored
\* and keeps its parent.
GetUserTreeWhen(failings) ==
  /\ \E userId \in RequestIds, currentUserId \in RequestIds,
        depth \in RequestDepths, failing \in failings :
       LET params == [userId |-> userId, depth |-> depth,
                      currentUserId |-> currentUserId] IN
       LET res == getUserTree(users, params, failing) IN
       out' = [op |-> "getUserTree",
               req |-> [userId |-> userId, depth |-> depth,
                        currentUserId |-> currentUserId,
                        failing |-> failing],
               status |-> res.status, body |-> res.body]
  /\ UNCHANGED <<users, reg, toggles>>

\* user.tree.getUserTree is served while the store answers every read
GetUserTree == GetUserTreeWhen({"none"})

\* the orders in which a $graphLookup may return the documents of its `as`
\* array (the array is in no guaranteed order)
Orderings(S) ==
  {o \in [1..Cardinality(S) -> S] :
     \A i, j \in 1..Cardinality(S) : i # j => o[i] # o[j]}

\* an ancestor list that keeps inactive ancestors
getUserAncestors_KeepInactive(st, userId, order) ==
  IF ~isValid(userId) \/ findById(st, userId) = NULL
    THEN <<>>
    ELSE LET kept == SelectSeq(order,
                       LAMBDA a : st[a].position \in {LEFT, RIGHT}) IN
         [i \in 1..Len(kept) |->
            [userId |-> kept[i], site |-> st[kept[i]].position]]

\* getUserAncestors, the $graphLookup having returned the ancestors as
\* `order`: the active ancestors that have a position, each with its own
\* position as site
getUserAncestors(st, userId, order) ==
  IF ~isValid(userId) \/ findById(st, userId) = NULL
    THEN <<>>
    ELSE LET kept == SelectSeq(order,
                       LAMBDA a : st[a].isActive
                                    /\ st[a].position \in {LEFT, RIGHT}) IN
         [i \in 1..Len(kept) |->
            [userId |-> kept[i], site |-> st[kept[i]].position]]

\* the ancestors the $graphLookup of getUserAncestors finds
AncestorsOf(st, userId) ==
  IF userId \in DOMAIN st THEN graphLookupParents(st, st[userId].parent)
                          ELSE {}

\* user.tree.getAncestors is served
GetUserAncestors ==
  /\ \E userId \in RequestIds :
       \E order \in Orderings(AncestorsOf(users, userId)) :
         out' = [op |-> "getUserAncestors", req |-> [userId |-> userId],
                 status |-> "ok",
                 body |-> getUserAncestors(users, userId, order)]
  /\ UNCHANGED <<users, reg, toggles>>

\* getParentChain: const maxLevels = 6
maxLevels == 6

\* the for loop of getParentChain from the given level on: findById with
\* the parent populated, stop at a missing user or a missing parent
RECURSIVE parentChainFrom(_, _, _)
parentChainFrom(st, currentUserId, level) ==
  IF level >= maxLevels \/ findById(st, currentUserId) = NULL
    THEN <<>>
    ELSE LET parent == findById(st, st[currentUserId].parent) IN
         IF parent = NULL
           THEN <<>>
           ELSE <<parent>> \o parentChainFrom(st, parent, level + 1)

\* getParentChain(userId)
getParentChain(st, userId) ==
  IF ~isValid(userId) THEN <<>> ELSE parentChainFrom(st, userId, 0)

\* the numbers of levels a caller of the parent chain may ask for
RequestLevels == 1..3

\* user.tree.getParentChain is served: the handler takes the userId of the
\* payload only, whatever number of levels the caller asked for.  The reads
\* of the loop are one step: a stored user keeps its parent.
GetParentChain ==
  /\ \E userId \in RequestIds, levels \in RequestLevels :
       out' = [op |-> "getParentChain",
               req |-> [userId |-> userId, maxLevels |-> levels],
               status |-> "ok", body |-> getParentChain(users, userId)]
  /\ UNCHANGED <<users, reg, toggles>>

\* getDirectReferrals: find({ parent: userId, isActive: true }, { _id: 1 })
getDirectReferrals(st, userId) ==
  IF ~isValid(userId)
    THEN {}
    ELSE {n \in DOMAIN st : st[n].parent = userId /\ st[n].isActive}

\* user.tree.getDirectReferrals is served
GetDirectReferrals ==
  /\ \E userId \in RequestIds :
       out' = [op |-> "getDirectReferrals", req |-> [userId |-> userId],
               status |-> "ok", body |-> getDirectReferrals(users, userId)]
  /\ UNCHANGED <<users, reg, toggles>>

\* getDescendantsInLeg: $graphLookup with maxDepth: 20
legMaxDepth == 20

\* getDescendantsInLeg(rootChildId, side): the leg root and the result of
\* the $graphLookup over parent; side is only logged
getDescendantsInLeg(st, rootChildId) ==
  IF ~isValid(rootChildId) \/ rootChildId \notin DOMAIN st
    THEN {}
    ELSE {rootChildId}
           \cup {d[1] : d \in graphLookupChildren(st, {rootChildId}, 0,
                                                  legMaxDepth)}

\* user.tree.getDescendantsInLeg is served
GetDescendantsInLeg ==
  /\ \E rootChildId \in RequestIds :
       out' = [op |-> "getDescendantsInLeg",
               req |-> [userId |-> rootChildId], status |-> "ok",
               body |-> getDescendantsInLeg(users, rootChildId)]
  /\ UNCHANGED <<users, reg, toggles>>

\* the numbers of levels a checkMinDepthLevels request may carry
RequestMinDepthLevels == -1..MaxTreeNodes

\* a depth that does not count the level of the direct children
actualDepth_NoPlusOne(st, userId) ==
  LET descendants == graphLookupChildren(st, {userId}, 0, NoMaxDepth(st)) IN
  IF descendants = {}
    THEN 0
    ELSE CHOOSE m \in {d[2] : d \in descendants} :
           \A d \in descendants : d[2] <= m

\* the aggregate of checkMinDepthLevels: $graphLookup over parent with
\* depthField, $max of the depths (null without descendants), then
\* actualDepth = maxDepth !== null ? maxDepth + 1 : 0
actualDepth(st, userId) ==
  LET descendants == graphLookupChildren(st, {userId}, 0, NoMaxDepth(st)) IN
  IF descendants = {}
    THEN 0
    ELSE (CHOOSE m \in {d[2] : d \in descendants} :
            \A d \in descendants : d[2] <= m) + 1

\* a check that computes the depth whatever the number of levels asked
checkMinDepthLevels_NoShortcut(st, userId, minDepthLevels) ==
  IF ~isValid(userId) THEN FALSE
  ELSE IF findById(st, userId) = NULL THEN FALSE
  ELSE actualDepth(st, userId) >= minDepthLevels

\* checkMinDepthLevels(userId, minDepthLevels)
checkMinDepthLevels(st, userId, minDepthLevels) ==
  IF ~isValid(userId) THEN FALSE
  ELSE IF minDepthLevels <= 0 THEN TRUE
  ELSE IF findById(st, userId) = NULL THEN FALSE
  ELSE actualDepth(st, userId) >= minDepthLevels

\* user.tree.checkMinDepthLevels is served.  The two reads are one step: a
\* stored user stays stored.
CheckMinDepthLevels ==
  /\ \E userId \in RequestIds, minDepthLevels \in RequestMinDepthLevels :
       out' = [op |-> "checkMinDepthLevels",
               req |-> [userId |-> userId,
                        minDepthLevels |-> minDepthLevels],
               status |-> "ok",
               body |-> checkMinDepthLevels(users, userId, minDepthLevels)]
  /\ UNCHANGED <<users, reg, toggles>>

\* ------------------------------------------------------------ tree search
\* strings are sequences of characters; a search field that is absent
NoTerm == <<"undefined">>

\* String.prototype.toLowerCase over the letters the model uses
toLowerCase(str) ==
  [i \in 1..Len(str) |-> CASE str[i] = "A" -> "a"
                           [] str[i] = "L" -> "l"
                           [] str[i] = "X" -> "x"
                           [] str[i] = "Z" -> "z"
                           [] OTHER -> str[i]]

\* String.prototype.trim: blanks are taken off both ends
RECURSIVE trim(_)
trim(str) ==
  IF str = <<>> THEN <<>>
  ELSE IF Head(str) = " " THEN trim(Tail(str))
  ELSE IF str[Len(str)] = " " THEN trim(SubSeq(str, 1, Len(str) - 1))
  ELSE str

\* String.prototype.includes
includes(str, term) ==
  \E i \in 0..(Len(str) - Len(term)) : SubSeq(str, i + 1, i + Len(term)) = term

\* the texts the registration form of the user with the given _id carried:
\* personalInfo (first name, last name, document number) and email, the
\* email in lower case and no email or document number used twice (the ids
\* 0..3 are all the store of the search specification holds)
ProfileOf(n) ==
  CASE n % 4 = 0 -> [firstName |-> <<"A", "l">>, lastName |-> <<"z">>,
                     email |-> <<"x", "a">>, documentNumber |-> <<"0">>]
    [] n % 4 = 1 -> [firstName |-> <<"x">>, lastName |-> <<"A", "L">>,
                     email |-> <<"x", "a", "1">>, documentNumber |-> <<"1">>]
    [] n % 4 = 2 -> [firstName |-> <<"z">>, lastName |-> <<"z">>,
                     email |-> <<"a", "z", "l">>,
                     documentNumber |-> <<"x", "a">>]
    [] OTHER     -> [firstName |-> <<"z">>, lastName |-> <<"Z">>,
                     email |-> <<"z", "a", "l">>,
                     documentNumber |-> <<"z", "x", "a">>]

\* the search terms a request may carry
SearchTerms ==
  {NoTerm, <<>>, <<"a">>, <<"a", " ">>, <<"a", "l">>, <<" ", "A", "L">>,
   <<"x", "a">>}

\* the pages and limits a request may carry (NULL: none)
RequestPages == {NULL, 1, 2}
RequestLimits == {NULL, 1, 2}

\* the filter of searchUsersInTree: the lower-cased full name, email or
\* document number includes the search term
matchesSearch(n, searchTerm) ==
  LET info == ProfileOf(n) IN
  LET fullName == trim(toLowerCase(info.firstName \o <<" ">>
                                      \o info.lastName)) IN
  \/ includes(fullName, searchTerm)
  \/ includes(toLowerCase(info.email), searchTerm)
  \/ includes(toLowerCase(info.documentNumber), searchTerm)

\* the documents the $graphLookup of getAllDescendantsForSearch unwinds
SearchLookup(st, rootUserId) ==
  IF rootUserId \in DOMAIN st
    THEN {d[1] : d \in graphLookupChildren(st, {rootUserId}, 0,
                                           NoMaxDepth(st))}
    ELSE {}

\* a descendant list that keeps inactive users
getAllDescendantsForSearch_KeepInactive(st, rootUserId, order, readFails) ==
  IF readFails THEN <<>> ELSE order

\* getAllDescendantsForSearch, the $graphLookup having returned the
\* descendants as `order`: $match isActive: true; a failed read is caught
\* and an empty list returned
getAllDescendantsForSearch(st, rootUserId, order, readFails) ==
  IF readFails
    THEN <<>>
    ELSE SelectSeq(order, LAMBDA d : st[d].isActive)

\* a term check that counts the blanks around the term
ValidSearch_Untrimmed(search) == search # NoTerm /\ Len(search) >= 2

\* !search || search.trim().length < 2 is the rejected case
ValidSearch(search) ==
  search # NoTerm /\ search # <<>> /\ Len(trim(search)) >= 2

\* Array.prototype.slice(offset, offset + limit) for 0 <= offset
slice(list, offset, limit) ==
  SubSeq(list, offset + 1,
         IF offset + limit < Len(list) THEN offset + limit ELSE Len(list))

\* a page that starts one entry late
paginate_OffByOne(filteredResults, page, limit) ==
  slice(filteredResults, (page - 1) * limit + 1, limit)

\* offset = (page - 1) * limit; filteredResults.slice(offset, offset + limit)
paginate(filteredResults, page, limit) ==
  slice(filteredResults, (page - 1) * limit, limit)

\* searchUsersInTree: the answer to params = [search, page, limit,
\* currentUserId]
searchUsersInTree(st, params, order, readFails) ==
  LET page == IF params.page = NULL THEN 1 ELSE params.page IN
  LET limit == IF params.limit = NULL THEN 20 ELSE params.limit IN
  IF ~isValid(params.currentUserId) THEN Failure("400")
  ELSE IF ~ValidSearch(params.search) THEN Failure("400")
  ELSE
    LET descendants == getAllDescendantsForSearch(st, params.currentUserId,
                                                  order, readFails) IN
    IF Len(descendants) = 0
      THEN [status |-> "ok",
            body |-> [results |-> <<>>, total |-> 0,
                      page |-> page, limit |-> limit]]
      ELSE
        LET searchTerm == toLowerCase(trim(params.search)) IN
        LET filteredResults ==
              SelectSeq(descendants,
                        LAMBDA d : matchesSearch(d, searchTerm)) IN
        [status |-> "ok",
         body |-> [results |-> paginate(filteredResults, page, limit),
                   total |-> Len(filteredResults),
                   page |-> page, limit |-> limit]]

\* user.tree.searchUsers is served; `failures` says whether the aggregate
\* may answer (FALSE) and whether it may throw (TRUE)
SearchUsersInTreeWhen(failures) ==
  /\ \E currentUserId \in RequestIds, search \in SearchTerms,
        page \in RequestPages, limit \in RequestLimits,
        readFails \in failures :
       \E order \in Orderings(SearchLookup(users, currentUserId)) :
         LET params == [search |-> search, page |-> page, limit |-> limit,
                        currentUserId |-> currentUserId] IN
         LET res == searchUsersInTree(users, params, order, readFails) IN
         out' = [op |-> "searchUsersInTree",
                 req |-> [params |-> params, order |-> order,
                          readFails |-> readFails],
                 status |-> res.status, body |-> res.body]
  /\ UNCHANGED <<users, reg, toggles>>

\* user.tree.searchUsers is served while the store answers its read
SearchUsersInTree == SearchUsersInTreeWhen({FALSE})

\* ------------------------------------------------- specifications, cont.
\* the codes of the stored users
StoredCodes == {users[n].referralCode : n \in DOMAIN users}

\* the store changes in SaveUser and SaveParent only, so every value it
\* takes is held in a state in which each handler is idle, has answered or
\* is about to write the parent; tree queries, which read the store only,
\* are served in these states, and not right after another query (whose
\* answer was computed from the same store)
StoreSettled ==
  /\ out.op = "none"
  /\ \A p \in Procs : reg[p].pc \in {"idle", "done", "saveParent"}

\* the same while account management toggles isActive
NextActive ==
  \/ InFlight = {} /\ Register(1, MaxActNodes, DtoPositions)
  \/ Step(1, DtoCodes)
  \/ \E n \in DOMAIN users : ToggleActive(n)

SpecActive == Init /\ [][NextActive]_vars

\* registrations under stored users run one after the other while tree
\* queries are served
NextTree ==
  \/ InFlight = {} /\ Register(1, MaxTreeNodes, FormPositions)
  \/ Step(1, StoredCodes)
  \/ StoreSettled /\ GetUserTree
  \/ StoreSettled /\ GetUserAncestors
  \/ StoreSettled /\ GetParentChain
  \/ StoreSettled /\ GetDescendantsInLeg
  \/ StoreSettled /\ CheckMinDepthLevels

SpecTree == Init /\ [][NextTree]_vars

\* the same while account management toggles isActive, for the queries that
\* filter on isActive
NextTreeActive ==
  \/ InFlight = {} /\ Register(1, MaxTreeNodes, FormPositions)
  \/ Step(1, StoredCodes)
  \/ \E n \in DOMAIN users : ToggleActive(n)
  \/ StoreSettled /\ GetUserAncestors
  \/ StoreSettled /\ GetDirectReferrals

SpecTreeActive == Init /\ [][NextTreeActive]_vars

\* registrations from the registration form run concurrently while direct
\* referrals are listed
NextRace ==
  \/ \E p \in Procs : Register(p, MaxRaceNodes, FormPositions)
  \/ \E p \in Procs : Step(p, FormCodes)
  \/ StoreSettled /\ InFlight = {} /\ GetDirectReferrals

SpecRace == Init /\ [][NextRace]_vars

\* every registration names the root's code and LEFT, one after the other,
\* while the legs are listed
NextChain ==
  \/ InFlight = {} /\ Register(1, MaxChainNodes, {LEFT})
  \/ Step(1, {RootCode})
  \/ StoreSettled /\ InFlight = {} /\ GetDescendantsInLeg

SpecChain == Init /\ [][NextChain]_vars

\* registrations under stored users run one after the other and account
\* management toggles isActive while the tree is searched
NextSearch ==
  \/ InFlight = {} /\ Register(1, MaxSearchNodes, FormPositions)
  \/ Step(1, StoredCodes)
  \/ \E n \in DOMAIN users : ToggleActive(n)
  \/ StoreSettled /\ InFlight = {} /\ SearchUsersInTree

SpecSearch == Init /\ [][NextSearch]_vars

\* registrations under stored users run one after the other while the store
\* may fail: a read or the write of the parent may throw
NextFault ==
  \/ InFlight = {} /\ Register(1, MaxFaultNodes, FormPositions)
  \/ Step(1, StoredCodes)
  \/ ReadFails(1)
  \/ SaveParentFails(1)
  \/ StoreSettled /\ InFlight = {} /\ GetUserTreeWhen({"none"} \cup TreeReads)
  \/ StoreSettled /\ InFlight = {} /\ SearchUsersInTreeWhen(BOOLEAN)

SpecFault == Init /\ [][NextFault]_vars

\* ------------------------------------------------------ leg qualification
\* a descendantIds field that is absent
NoList == {NULL}

\* the descendantIds a checkActiveMembershipsInLeg request may carry: none,
\* or a list of ids of stored users and the malformed id
RequestIdLists == {NoList} \cup SUBSET (DOMAIN users \cup {BadId})

\* the outcomes of the membership batch lookup, a call of a sibling service:
\* it throws (failure or timeout), or it answers, the user named (if any)
\* having an active membership
BatchOutcomes ==
  [fails : BOOLEAN, active : DOMAIN users \cup {NULL}]

\* a check that takes a failed lookup for an active membership
checkActiveMembershipsInLeg_FailOpen(st, descendantIds, referralCode, batch) ==
  IF descendantIds = NoList \/ descendantIds = {} THEN FALSE
  ELSE
    LET validObjectIds == {id \in descendantIds : isValid(id)} IN
    LET usersWithReferrer ==
          {n \in DOMAIN st : /\ n \in validObjectIds
                             /\ st[n].referrerCode = referralCode} IN
    IF usersWithReferrer = {} THEN FALSE
    ELSE IF batch.fails THEN TRUE
    ELSE batch.active \in usersWithReferrer

\* checkActiveMembershipsInLeg(descendantIds, referralCode): false without
\* ids, false when no listed user has the referrer code, false when the
\* batch lookup throws; else whether some looked-up user has an active
\* membership
checkActiveMembershipsInLeg(st, descendantIds, referralCode, batch) ==
  IF descendantIds = NoList \/ descendantIds = {} THEN FALSE
  ELSE
    LET validObjectIds == {id \in descendantIds : isValid(id)} IN
    LET usersWithReferrer ==
          {n \in DOMAIN st : /\ n \in validObjectIds
                             /\ st[n].referrerCode = referralCode} IN
    IF usersWithReferrer = {} THEN FALSE
    ELSE IF batch.fails THEN FALSE
    ELSE batch.active \in usersWithReferrer

\* user.tree.checkActiveMembershipsInLeg is served
CheckActiveMembershipsInLeg ==
  /\ \E descendantIds \in RequestIdLists,
        referralCode \in StoredCodes \cup {EmptyCode},
        batch \in BatchOutcomes :
       out' = [op |-> "checkActiveMembershipsInLeg",
               req |-> [descendantIds |-> descendantIds,
                        referralCode |-> referralCode, batch |-> batch],
               status |-> "ok",
               body |-> checkActiveMembershipsInLeg(users, descendantIds,
                                                    referralCode, batch)]
  /\ UNCHANGED <<users, reg, toggles>>

\* registrations under stored users run one after the other while legs are
\* checked for active memberships
NextLeg ==
  \/ InFlight = {} /\ Register(1, MaxLegNodes, FormPositions)
  \/ Step(1, StoredCodes)
  \/ StoreSettled /\ InFlight = {} /\ CheckActiveMembershipsInLeg

SpecLeg == Init /\ [][NextLeg]_vars

TypeOK ==
  /\ DOMAIN users \subseteq 0..(MaxNodes + MaxSeqNodes + MaxChainNodes)
  /\ \A p \in Procs : reg[p].pc \in {"idle", "generateCode", "findReferrer",
                                     "descend", "saveUser", "saveParent",
                                     "done"}

\* ------------------------------------------------------------ tree shape
\* the users a child slot of n refers to
Children(st, n) == {st[n].leftChild, st[n].rightChild} \ {NULL}

\* the users within d child edges of n (n included)
RECURSIVE Within(_, _, _)
Within(st, n, d) ==
  IF d = 0 \/ n \notin DOMAIN st
    THEN {n} \cap DOMAIN st
    ELSE {n} \cup UNION {Within(st, c, d - 1) : c \in Children(st, n)}

\* n and everything reachable from n by child edges
Subtree(st, n) == Within(st, n, Cardinality(DOMAIN st))

\* number of child edges from s down to n, for n in Subtree(st, s)
DepthBelow(st, s, n) ==
  CHOOSE d \in 0..Cardinality(DOMAIN st) :
    /\ n \in Within(st, s, d)
    /\ \A e \in 0..(d - 1) : n \notin Within(st, s, e)

\* the (parent, slot) pairs whose child reference is n
ReferencesTo(st, n) ==
  {ps \in (DOMAIN st) \X {LEFT, RIGHT} : ChildAt(st[ps[1]], ps[2]) = n}

\* registration p has answered successfully
Succeeded(p) == reg[p].pc = "done" /\ reg[p].status = "ok"

\* two codes are the same up to letter case
SameCode(a, b) == a[2] = b[2] /\ a[1] \in {"U", "L"} /\ b[1] \in {"U", "L"}

\* the stored ancestors of n by the parent field, nearest first
RECURSIVE ParentChain(_, _)
ParentChain(st, n) ==
  IF n \notin DOMAIN st \/ st[n].parent \notin DOMAIN st
    THEN <<>>
    ELSE <<st[n].parent>> \o ParentChain(st, st[n].parent)

\* the elements of a sequence
Range(seq) == {seq[i] : i \in 1..Len(seq)}

\* the place of x in a sequence that holds it
IndexIn(seq, x) == CHOOSE i \in 1..Len(seq) : seq[i] = x

\* the user whose subtree a getUserTree request asks for
Target(req) == IF req.userId # NULL THEN req.userId ELSE req.currentUserId

\* the depth a getUserTree request asks for (3 when it names none)
AskedDepth(req) == IF req.depth = NULL THEN 3 ELSE req.depth

\* the last step answered a query of the given name
Answered(op) == out.op = op

\* ------------------------------------------------------------------ C1
\* C1: concurrent registrations are granted pairwise distinct (parentId,
\* side) pairs: no two users are recorded with the same parent and the same
\* side.
C1_DistinctSlots ==
  \A a, b \in DOMAIN users :
    (a # b /\ users[a].parent # NULL /\ users[a].parent = users[b].parent)
      => users[a].position # users[b].position

\* ------------------------------------------------------------------ C2
\* C2: child slots are write-once: no step changes a leftChild or a
\* rightChild that is already set.
C2_WriteOnce ==
  [][\A n \in DOMAIN users :
       /\ users[n].leftChild # NULL
            => users'[n].leftChild = users[n].leftChild
       /\ users[n].rightChild # NULL
            => users'[n].rightChild = users[n].rightChild]_vars

\* ------------------------------------------------------------------ C3
\* C3: a registration that has answered either failed with an error status
\* or holds its slot: the slot it was granted under its parent refers to the
\* user it saved (a placement is never silently lost).
C3_PlacedOrError ==
  \A p \in Procs :
    Succeeded(p) =>
      LET n == reg[p].savedUser IN
      users[n].parent # NULL =>
        ChildAt(users[users[n].parent], users[n].position) = n

\* ------------------------------------------------------------------ C4
\* C4: the parent returned by findOptimalPosition has the least depth below
\* the sponsor among the users of the sponsor's subtree whose slot on the
\* requested side is empty.
C4_ShallowestSlot ==
  \A p \in Procs :
    (reg[p].pc = "saveUser" /\ reg[p].parentUser # NULL) =>
      LET side == TargetPosition(reg[p].position) IN
      LET free == {n \in Subtree(users, reg[p].referrer) :
                     ChildAt(users[n], side) = NULL} IN
      \A n \in free :
        DepthBelow(users, reg[p].referrer, reg[p].parentUser)
          <= DepthBelow(users, reg[p].referrer, n)

\* ------------------------------------------------------------------ C5
\* C5: in every state each user with a parent is the child that the
\* parent's slot named by the user's own side refers to.
C5_SideMatchesSlot ==
  \A n \in DOMAIN users :
    users[n].parent # NULL =>
      ChildAt(users[users[n].parent], users[n].position) = n

\* ------------------------------------------------------------------ C6
\* C6: after any sequence of registrations the users form one tree: exactly
\* one user has no parent, every user is reachable from it by child edges,
\* and only it has an undefined side.
C6_SingleTree ==
  InFlight = {} =>
    /\ Cardinality({n \in DOMAIN users : users[n].parent = NULL}) = 1
    /\ \A n \in DOMAIN users :
         /\ users[n].parent = NULL => Subtree(users, n) = DOMAIN users
         /\ users[n].position = UNDEF <=> users[n].parent = NULL

\* ------------------------------------------------------------------ C7
\* C7: in every state every user is referred to by at most one child slot
\* (so by at most one other user, and never by both slots of one user).
C7_SingleReference ==
  \A n \in DOMAIN users : Cardinality(ReferencesTo(users, n)) <= 1

\* two registrations have answered successfully for the same slot: one user
\* is referred to by it, the other by no slot at all
C7_Witness ==
  \E p, q \in Procs :
    /\ p # q /\ Succeeded(p) /\ Succeeded(q)
    /\ users[reg[p].savedUser].parent # NULL
    /\ users[reg[p].savedUser].parent = users[reg[q].savedUser].parent
    /\ users[reg[p].savedUser].position = users[reg[q].savedUser].position
    /\ Cardinality(ReferencesTo(users, reg[p].savedUser)) = 1
    /\ ReferencesTo(users, reg[q].savedUser) = {}

\* ------------------------------------------------------------------ C8
\* C8: when the referrer lookup of a registration runs and no active user
\* has the sponsor code (in either letter case), the registration ends with
\* status 404, has saved no user and the store is left unchanged.
C8_UnknownSponsorNotFound ==
  [][\A p \in Procs :
       ( /\ reg[p].pc = "findReferrer"
         /\ reg'[p] # reg[p]
         /\ \A n \in DOMAIN users :
              SameCode(users[n].referralCode, reg[p].referrerCode)
                => ~users[n].isActive )
       => ( /\ reg'[p].pc = "done"
            /\ reg'[p].status = "404"
            /\ reg[p].savedUser = NULL
            /\ reg'[p].savedUser = NULL
            /\ users' = users )]_vars

\* a registration was answered 404 although a user with its sponsor code is
\* stored: that user is inactive
C8_Witness ==
  \E p \in Procs :
    /\ reg[p].pc = "done" /\ reg[p].status = "404"
    /\ \E n \in DOMAIN users :
         /\ SameCode(users[n].referralCode, reg[p].referrerCode)
         /\ ~users[n].isActive

C10_UniqueReferralCode ==
  /\ [](\A a, b \in DOMAIN users :
          a # b => users[a].referralCode # users[b].referralCode)
  /\ [](\A p \in Procs :
          reg[p].pc = "generateCode" =>
            \A k \in 0..(maxAttempts + 1) :
              \A c \in {d \in generateRandomCode :
                          findByReferralCode(users, d) = {}} :
                generateUniqueReferralCode(users, Draws(k, c), 0)
                  = IF k < maxAttempts THEN c ELSE NoCode)
  /\ [][\A p \in Procs :
          (reg[p].pc = "generateCode" /\ reg'[p] # reg[p])
          => /\ users' = users
             /\ \/ reg'[p].pc = "done" /\ reg'[p].status = "500"
                \/ /\ reg'[p].pc \in {"findReferrer", "saveUser"}
                   /\ reg'[p].referralCode \in PoolCodes
                   /\ findByReferralCode(users, reg'[p].referralCode) = {}]_vars

\* two registrations drew the same free code at the same time: the insert of
\* the second one was refused (status 409) while the first one's user holds
\* the code
C10_Witness ==
  \E p, q \in Procs :
    /\ p # q
    /\ reg[p].pc = "done" /\ reg[p].status = "409"
    /\ Succeeded(q)

\* ----------------------------------------------------------------- C11
\* C11: a getUserTree request is answered with a tree only if its target is
\* the requester or has the requester on its parent chain; a well-formed
\* request for any other stored target is answered 403 without tree data.
C11_TreeAccess ==
  Answered("getUserTree") =>
    LET target == Target(out.req) IN
    LET requester == out.req.currentUserId IN
    LET allowed == \/ target = requester
                   \/ requester \in Range(ParentChain(users, target)) IN
    /\ out.status = "ok" => (target \in DOMAIN users /\ allowed)
    /\ ( /\ target \in DOMAIN users
         /\ requester \in Nat
         /\ AskedDepth(out.req) \in 1..5
         /\ ~allowed )
       => (out.status = "403" /\ out.body = {})

\* a user asked for the subtree of its own parent and was answered 403
C11_Witness ==
  /\ Answered("getUserTree")
  /\ out.status = "403"
  /\ out.req.currentUserId \in DOMAIN users
  /\ Target(out.req) = users[out.req.currentUserId].parent

\* ----------------------------------------------------------------- C12
\* C12: for all users A and X, isUserDescendant(A, X) is true exactly when A
\* is on the parent chain of X; in particular it is false for A = X and for
\* an A that is not stored.  (Every store is held in a state whose last
\* step served no query; the pairs are gone through there.)
C12_DescendantIffOnChain ==
  Answered("none") =>
    \A X \in DOMAIN users :
      \A A \in DOMAIN users \cup {GhostId} :
        isUserDescendant(users, A, X) <=> A \in Range(ParentChain(users, X))

\* a user was given the subtree of a user two levels below it
C12_Witness ==
  /\ Answered("getUserTree")
  /\ out.status = "ok"
  /\ Target(out.req) \in DOMAIN users
  /\ Len(ParentChain(users, Target(out.req))) >= 2
  /\ out.req.currentUserId = ParentChain(users, Target(out.req))[2]

\* ----------------------------------------------------------------- C13
\* C13: the tree answered for depth d (1..5) holds exactly the users within
\* d child edges of the target, each at its depth below the target; a node
\* above depth d carries the children stored for it, a node at depth d
\* carries none.
C13_DepthBound ==
  (Answered("getUserTree") /\ out.status = "ok") =>
    LET root == Target(out.req) IN
    LET d == AskedDepth(out.req) IN
    /\ d \in 1..5
    /\ {n.id : n \in out.body} = Within(users, root, d)
    /\ \A n \in out.body :
         /\ n.depth <= d
         /\ n.depth = DepthBelow(users, root, n.id)
         /\ n.depth < d => /\ n.left = users[n.id].leftChild
                           /\ n.right = users[n.id].rightChild
         /\ n.depth = d => (n.left = NULL /\ n.right = NULL)

\* a tree was answered whose node at the asked depth has a child in storage
C13_Witness ==
  /\ Answered("getUserTree")
  /\ out.status = "ok"
  /\ \E n \in out.body :
       /\ n.depth = AskedDepth(out.req)
       /\ Children(users, n.id) # {}

\* ----------------------------------------------------------------- C14
\* C14: getUserTree answers 400 when the target id or the requester id is
\* no ObjectId or the depth is outside 1..5, and 404 when the request is
\* well-formed and the target is not stored; neither answer carries a tree.
C14_TreeErrors ==
  Answered("getUserTree") =>
    LET target == Target(out.req) IN
    LET malformed == \/ ~(target \in Nat)
                     \/ ~(out.req.currentUserId \in Nat)
                     \/ AskedDepth(out.req) \notin 1..5 IN
    /\ malformed => (out.status = "400" /\ out.body = {})
    /\ (~malformed /\ target \notin DOMAIN users)
         => (out.status = "404" /\ out.body = {})

\* a well-formed request for a user that is not stored was answered 404
C14_Witness ==
  /\ Answered("getUserTree")
  /\ out.status = "404"
  /\ Target(out.req) = GhostId

\* ----------------------------------------------------------------- C15
\* C15: getUserAncestors lists the ancestors nearest first: of two entries
\* the one closer to the queried user comes earlier.
C15_NearestFirst ==
  Answered("getUserAncestors") =>
    LET chain == ParentChain(users, out.req.userId) IN
    \A i, j \in 1..Len(out.body) :
      i < j => IndexIn(chain, out.body[i].userId)
                 < IndexIn(chain, out.body[j].userId)

\* ----------------------------------------------------------------- C16
\* C16: the site of each entry of getUserAncestors is the side of the edge
\* the walk arrived by: the position of the user below the ancestor on the
\* queried user's parent chain, the queried user for its parent.
C16_SideOfEdge ==
  Answered("getUserAncestors") =>
    LET chain == ParentChain(users, out.req.userId) IN
    \A i \in 1..Len(out.body) :
      LET k == IndexIn(chain, out.body[i].userId) IN
      LET below == IF k = 1 THEN out.req.userId ELSE chain[k - 1] IN
      out.body[i].site = users[below].position

\* ----------------------------------------------------------------- C17
\* C17: getUserAncestors lists no inactive ancestor and lists every active
\* ancestor that has a side, also those above an inactive ancestor.
C17_InactiveSkipped ==
  Answered("getUserAncestors") =>
    LET chain == ParentChain(users, out.req.userId) IN
    LET listed == {out.body[i].userId : i \in 1..Len(out.body)} IN
    /\ listed \subseteq Range(chain)
    /\ \A a \in Range(chain) :
         a \in listed <=> (users[a].isActive
                             /\ users[a].position \in {LEFT, RIGHT})

\* an ancestor was listed that lies above an inactive ancestor
C17_Witness ==
  /\ Answered("getUserAncestors")
  /\ LET chain == ParentChain(users, out.req.userId) IN
     \E i \in 1..Len(out.body) :
       \E k \in 1..Len(chain) :
         /\ k < IndexIn(chain, out.body[i].userId)
         /\ ~users[chain[k]].isActive

\* ----------------------------------------------------------------- C18
\* C18: the parent chain answered to a caller asking for maxLevels levels
\* is the first min(maxLevels, number of ancestors) ancestors of the user,
\* nearest first, whatever their isActive.
C18_ChainBounded ==
  (Answered("getParentChain") /\ out.req.userId \in DOMAIN users) =>
    LET chain == ParentChain(users, out.req.userId) IN
    LET n == IF out.req.maxLevels < Len(chain) THEN out.req.maxLevels
                                               ELSE Len(chain) IN
    out.body = SubSeq(chain, 1, n)

\* ----------------------------------------------------------------- C19
\* C19: getDirectReferrals of a user answers exactly the active users whose
\* parent it is, and never more than two of them.
C19_AtMostTwoReferrals ==
  (Answered("getDirectReferrals") /\ out.req.userId \in DOMAIN users) =>
    /\ out.body = {n \in DOMAIN users : users[n].parent = out.req.userId
                                          /\ users[n].isActive}
    /\ Cardinality(out.body) <= 2

\* ----------------------------------------------------------------- C20
\* C20: getDescendantsInLeg of a user answers the user itself and exactly
\* the users reachable from it by child edges, at any depth.
C20_WholeLeg ==
  (Answered("getDescendantsInLeg") /\ out.req.userId \in DOMAIN users) =>
    out.body = Subtree(users, out.req.userId)

\* ------------------------------------------------------------------ C21
\* the number of parent edges from the farthest stored user that has s among
\* its ancestors up to s (0 when no stored user has)
Height(st, s) ==
  LET below == {n \in DOMAIN st : s \in Range(ParentChain(st, n))} IN
  IF below = {}
    THEN 0
    ELSE CHOOSE h \in 1..Cardinality(DOMAIN st) :
           /\ \E n \in below : IndexIn(ParentChain(st, n), s) = h
           /\ \A n \in below : IndexIn(ParentChain(st, n), s) <= h

\* C21: for a stored user and a number of levels of at least 1,
\* checkMinDepthLevels answers true if and only if the height of the user's
\* subtree (direct children make height 1, no descendant height 0) is at
\* least that number
C21_MinDepthIffHeight ==
  (/\ Answered("checkMinDepthLevels")
   /\ out.req.userId \in DOMAIN users
   /\ out.req.minDepthLevels >= 1)
    => (out.body <=> Height(users, out.req.userId) >= out.req.minDepthLevels)

\* a user of height 2 is asked for 2 levels (true) and a childless user is
\* asked for 1 level (false)
C21_Witness ==
  /\ Answered("checkMinDepthLevels")
  /\ out.req.userId \in DOMAIN users
  /\ out.req.minDepthLevels = 2
  /\ Height(users, out.req.userId) = 2
  /\ out.body = TRUE
  /\ \E n \in DOMAIN users : Height(users, n) = 0

TrimmedLength(str) ==
  LET solid == {i \in 1..Len(str) : str[i] # " "} IN
  IF solid = {}
    THEN 0
    ELSE (CHOOSE l \in solid : \A i \in solid : i <= l)
           - (CHOOSE f \in solid : \A i \in solid : f <= i) + 1

\* C23 as stated: a search is rejected with 400 when the term is missing or
\* has fewer than 2 characters, and with a term of 2 or more characters and
\* a well-formed requester id it succeeds
C23_TermThreshold ==
  Answered("searchUsersInTree") =>
    LET search == out.req.params.search IN
    /\ (search = NoTerm \/ Len(search) < 2) => out.status = "400"
    /\ (/\ search # NoTerm
        /\ Len(search) >= 2
        /\ out.req.params.currentUserId \in Nat) => out.status = "ok"

\* C23 amended: a search is rejected with 400 when the term is missing or has
\* fewer than 2 characters once the blanks around it are taken off, and with
\* a term of 2 or more such characters and a well-formed requester id it
\* succeeds
C23_TrimmedTermThreshold ==
  Answered("searchUsersInTree") =>
    LET search == out.req.params.search IN
    /\ (search = NoTerm \/ TrimmedLength(search) < 2) => out.status = "400"
    /\ (/\ search # NoTerm
        /\ TrimmedLength(search) >= 2
        /\ out.req.params.currentUserId \in Nat) => out.status = "ok"

\* a term of three characters, two of them once trimmed, finds a user
C23_Witness ==
  /\ Answered("searchUsersInTree")
  /\ Len(out.req.params.search) = 3
  /\ TrimmedLength(out.req.params.search) = 2
  /\ out.status = "ok"
  /\ Len(out.body.results) >= 1

\* ------------------------------------------------------------------ C24
\* the page and the limit a search request asks for (1 and 20 by default)
AskedPage(req) == IF req.params.page = NULL THEN 1 ELSE req.params.page
AskedLimit(req) == IF req.params.limit = NULL THEN 20 ELSE req.params.limit

\* the active descendants that match the term of a search request, in the
\* order in which the store returned the descendants
Matching(req) ==
  SelectSeq(req.order,
            LAMBDA n : /\ users[n].isActive
                       /\ matchesSearch(n, toLowerCase(trim(req.params.search))))

\* C24: in a successful search answer (page >= 1, limit >= 1) total is the
\* number of matching descendants and results holds the entries
\* (page-1)*limit+1 .. page*limit of the matching list, as far as they exist
C24_TotalAndSlice ==
  (Answered("searchUsersInTree") /\ out.status = "ok") =>
    LET offset == (AskedPage(out.req) - 1) * AskedLimit(out.req) IN
    LET matching == Matching(out.req) IN
    LET results == out.body.results IN
    /\ out.body.total = Len(matching)
    /\ Len(results) <= AskedLimit(out.req)
    /\ \A i \in 1..AskedLimit(out.req) :
         IF offset + i <= Len(matching)
           THEN i <= Len(results) /\ results[i] = matching[offset + i]
           ELSE i > Len(results)

\* page 2 of a search with limit 1 and two matches holds the second match
C24_Witness ==
  /\ Answered("searchUsersInTree")
  /\ out.status = "ok"
  /\ out.req.params.page = 2
  /\ out.req.params.limit = 1
  /\ out.body.total = 2
  /\ out.body.results = <<Matching(out.req)[2]>>

\* ------------------------------------------------------------------ C30
\* the stored users that have s among their ancestors by the parent field
StrictDescendants(st, s) ==
  {n \in DOMAIN st : s \in Range(ParentChain(st, n))}

\* C30: every entry of a search answer is an active user that has the
\* requester among its ancestors, and total counts exactly the active strict
\* descendants of the requester that match the term
C30_ActiveStrictDescendants ==
  (Answered("searchUsersInTree") /\ out.status = "ok") =>
    LET requester == out.req.params.currentUserId IN
    LET searchTerm == toLowerCase(trim(out.req.params.search)) IN
    /\ \A i \in 1..Len(out.body.results) :
         LET n == out.body.results[i] IN
         /\ n \in StrictDescendants(users, requester)
         /\ n # requester
         /\ users[n].isActive
    /\ out.body.total =
         Cardinality({n \in StrictDescendants(users, requester) :
                        users[n].isActive /\ matchesSearch(n, searchTerm)})

\* a search by a user who matches the term itself finds an active descendant
\* while another descendant that matches is inactive
C30_Witness ==
  /\ Answered("searchUsersInTree")
  /\ out.status = "ok"
  /\ LET requester == out.req.params.currentUserId IN
     LET searchTerm == toLowerCase(trim(out.req.params.search)) IN
     /\ requester \in DOMAIN users
     /\ matchesSearch(requester, searchTerm)
     /\ Len(out.body.results) >= 1
     /\ \E n \in StrictDescendants(users, requester) :
          ~users[n].isActive /\ matchesSearch(n, searchTerm)

\* ------------------------------------------------------------------ C25
\* the last step served a getUserTree request during which a read threw
TreeReadFailed ==
  /\ Answered("getUserTree")
  /\ Target(out.req) \in Nat
  /\ out.req.currentUserId \in Nat
  /\ AskedDepth(out.req) \in 1..5
  /\ \/ out.req.failing = "findById"
     \/ /\ out.req.failing = "isUserDescendant"
        /\ Target(out.req) \in DOMAIN users
        /\ Target(out.req) # out.req.currentUserId
     \/ /\ out.req.failing = "getAllDescendants"
        /\ Target(out.req) \in DOMAIN users
        /\ \/ Target(out.req) = out.req.currentUserId
           \/ out.req.currentUserId
                \in Range(ParentChain(users, Target(out.req)))

\* the last step served a search request during which the read threw
SearchReadFailed ==
  /\ Answered("searchUsersInTree")
  /\ out.req.readFails
  /\ out.req.params.currentUserId \in Nat
  /\ out.req.params.search # NoTerm
  /\ TrimmedLength(out.req.params.search) >= 2

\* the last step ended a registration because a read threw
PlacementReadFailed ==
  Answered("register") /\ out.req.failing = "read"

\* C25: when a read of the store fails during getUserTree, a search or a
\* placement, the caller gets an error, and neither a successful answer nor
\* the Forbidden answer
C25_NoHiddenFailure ==
  (TreeReadFailed \/ SearchReadFailed \/ PlacementReadFailed)
    => out.status \notin {"ok", "403"}

\* ------------------------------------------------------------------ C29
\* C29: the step that ends a registration with an error leaves the store
\* alone, and that registration has inserted no user
C29_ErrorLeavesStore ==
  [][\A p \in Procs :
       (reg[p].pc # "done" /\ reg'[p].pc = "done" /\ reg'[p].status # "ok")
         => (users' = users /\ reg[p].savedUser = NULL)]_vars

\* ------------------------------------------------------------------ C26
\* C26: checkActiveMembershipsInLeg answers false when the membership batch
\* lookup fails or times out, when the list of descendants is absent or
\* empty, and when no listed user has the given sponsor code
C26_SafeDefault ==
  Answered("checkActiveMembershipsInLeg") =>
    LET ids == out.req.descendantIds IN
    ((\/ out.req.batch.fails
      \/ ids = NoList
      \/ ids = {}
      \/ \A n \in ids \cap DOMAIN users :
           users[n].referrerCode # out.req.referralCode)
       => out.body = FALSE)

\* the lookup fails for a list that holds a user with the sponsor code, the
\* one user with an active membership
C26_Witness ==
  /\ Answered("checkActiveMembershipsInLeg")
  /\ out.req.batch.fails
  /\ out.req.descendantIds # NoList
  /\ \E n \in out.req.descendantIds \cap DOMAIN users :
       /\ users[n].referrerCode = out.req.referralCode
       /\ out.req.batch.active = n
  /\ out.body = FALSE

\* ------------------------------------------------------------------ C27
\* C27: the parent findOptimalPosition returns is the sponsor or a user
\* reachable from the sponsor by child edges, and every stored user that was
\* registered with a sponsor code has the owner of that code among its
\* ancestors (and, once its registration has returned, is reachable from it
\* by child edges)
C27_InsideSponsorSubtree ==
  /\ \A p \in Procs :
       (reg[p].pc = "saveUser" /\ reg[p].parentUser # NULL)
         => reg[p].parentUser \in Subtree(users, reg[p].referrer)
  /\ \A n \in DOMAIN users :
       \A s \in findByReferralCode(users, users[n].referrerCode) :
         /\ s \in Range(ParentChain(users, n))
         /\ InFlight = {} => n \in Subtree(users, s) \ {s}

\* a user registered with the root's code stands below another user, two
\* levels under the root
C27_Witness ==
  /\ InFlight = {}
  /\ \E n \in DOMAIN users :
       /\ users[n].referrerCode = RootCode
       /\ users[n].parent \notin {NULL, RootId}
       /\ n \in Subtree(users, RootId)

\* ------------------------------------------------------------------ C28
\* C28: registrations served one after the other are granted the side they
\* ask for (LEFT when they name none): the search on the opposite side is
\* never started and the position returned is the preferred one
C28_PreferredSideGranted ==
  \A p \in Procs :
    /\ reg[p].phase # 2
    /\ (reg[p].pc \in {"saveUser", "saveParent"} /\ reg[p].parentUser # NULL)
         => reg[p].assignedPosition =
              (IF reg[p].position = RIGHT THEN RIGHT ELSE LEFT)

\* a registration that asked for RIGHT is granted RIGHT under a user below
\* its sponsor, whose own right slot is taken
C28_Witness ==
  \E p \in Procs :
    /\ reg[p].pc = "saveUser"
    /\ reg[p].position = RIGHT
    /\ reg[p].assignedPosition = RIGHT
    /\ reg[p].parentUser \notin {NULL, reg[p].referrer}
    /\ users[reg[p].referrer].rightChild # NULL

====
